---- MODULE Spec2Model ----
(***************************************************************************)
(* A model of the DGL tutorial notebooks.                                  *)
(*                                                                         *)
(* 1_Basics.ipynb is a straight-line program over one DGLGraph G: the      *)
(* kernel runs its statements in order (Program), each statement being one *)
(* call of the graph API.  The state is the graph (node count, edge list   *)
(* in insertion order = edge id order), the node and edge feature          *)
(* dictionaries, what was printed, the value of the last expression and    *)
(* the errors raised.                                                      *)
(*                                                                         *)
(* Tensor entries are fixed-point numbers in units of 1/Scale, so that the *)
(* factor 0.5 of the notebook is exact.  torch.randn is a draw among       *)
(* NumSamples sample tensors.                                              *)
(***************************************************************************)
EXTENDS Integers, Sequences, FiniteSets, TLC

VARIABLES
    pc,          \* index in Program of the next statement of 1_Basics.ipynb
    num_nodes,   \* G.number_of_nodes()
    edges,       \* G's edges in edge-id order, each <<src, dst>>
    ndata,       \* G.ndata: key -> tensor with one row per node
    edata,       \* G.edata: key -> tensor with one entry per edge
    stdout,      \* what the print statements wrote, in order
    out,         \* value of the last expression statement (Out[n])
    raised       \* the errors raised so far, in order

basics_vars == <<pc, num_nodes, edges, ndata, edata, stdout, out, raised>>

\* The GCN notebook: one call GCN.forward(g, inputs)
VARIABLES
    g_nodes,     \* g.number_of_nodes()
    g_edges,     \* g's edges in edge-id order, each <<src, dst>>
    g_ndata,     \* g.ndata
    g_msgs,      \* g's message frame: field -> one message per edge, filled by send
    inputs,      \* the input node features
    weight,      \* self.linear.weight, out_feats x in_feats
    bias,        \* self.linear.bias
    h,           \* the local variable h of forward
    fpc,         \* position in forward
    ret          \* the value forward returned

gcn_vars == <<g_nodes, g_edges, g_ndata, g_msgs, inputs, weight, bias, h, fpc, ret>>

\* The GCN notebook: the graph cell and the training cell
VARIABLES
    tpc,         \* position in the two cells
    G_nodes,     \* G = create_karate_graph(): number of nodes
    G_edges,     \* G's edges
    GG_nodes,    \* GG = convert_to_bidirectional(G): number of nodes
    GG_edges,    \* GG's edges
    net_inputs,  \* the global inputs
    params,      \* net.parameters(): the initial sample and the updates applied
    optimizer,   \* the optimizer and its state
    epoch,       \* the loop variable
    all_logits,  \* the list all_logits
    logits,      \* the local logits of the loop body
    net_h,       \* the local variable h of Net.forward
    loss,        \* the loss of the epoch
    grads,       \* what the .grad of the parameters holds
    counts,      \* forward passes, backward passes and optimizer steps so far
    log          \* the graph calls and activations of the current forward pass

loop_vars ==
    <<tpc, G_nodes, G_edges, GG_nodes, GG_edges, net_inputs, params, optimizer,
      epoch, all_logits, logits, net_h, loss, grads, counts>>
train_vars == <<loop_vars, log>>

----------------------------------------------------------------------------
(* Bounds and program constants *)

\* number of sample tensors torch.randn may return
NumSamples == 3
\* longest endpoint list and largest node id of the add_edges calls compared in C4
MaxArgLen == 2
MaxArgNode == 6
\* largest graph and widest layer GCN.forward is run on
MaxGcnNodes == 2
MaxOutFeats == 1

\* denominator of the fixed-point unit: 0.5 = 1/Scale * (Scale \div 2)
Scale == 2

\* no value
None == <<>>
NoKeys == [k \in {} |-> 0]

----------------------------------------------------------------------------
(* Tensors *)

Zeros(rows, cols) == [i \in 1..rows |-> [j \in 1..cols |-> 0]]
Ones(rows, cols) == [i \in 1..rows |-> [j \in 1..cols |-> Scale]]
Ones1(n) == [i \in 1..n |-> Scale]
\* t * c for a number c given in fixed point
MulScalar(t, c) == [i \in DOMAIN t |-> [j \in DOMAIN t[i] |-> (t[i][j] * c) \div Scale]]
Add1(a, b) == [i \in DOMAIN a |-> a[i] + b[i]]

\* torch.randn((rows, cols)): the s-th sample tensor
Randn(s, rows, cols) ==
    [i \in 1..rows |-> [j \in 1..cols |-> ((s * i + (s + 1) * j) % 7) - 3]]
\* torch.randn((n,)): the s-th sample vector
Randn1(s, n) == [i \in 1..n |-> ((s * i + s) % 5) - 2]

----------------------------------------------------------------------------
(* Endpoint arguments of add_edges: a single integer or a list/tensor *)

Single(n) == [kind |-> "int", val |-> n]
List(l) == [kind |-> "list", val |-> l]

Repeat(x, k) == [i \in 1..k |-> x]

\* BroadcastLen that looks at the source argument only
BroadcastLen_srcOnly(u, v) == IF u.kind = "list" THEN Len(u.val) ELSE 1

\* the common length of the two endpoint arguments after broadcasting
BroadcastLen(u, v) ==
    IF u.kind = "list" THEN Len(u.val)
    ELSE IF v.kind = "list" THEN Len(v.val) ELSE 1

\* an endpoint argument as a list of the given length
AsList(x, k) == IF x.kind = "int" THEN Repeat(x.val, k) ELSE x.val

\* NewEdges losing the last pair
NewEdges_dropLast(u, v) ==
    LET k == BroadcastLen(u, v)
        us == AsList(u, k)
        vs == AsList(v, k)
    IN [i \in 1..(k - 1) |-> <<us[i], vs[i]>>]

\* NewEdges with the endpoints exchanged
NewEdges_swapped(u, v) ==
    LET k == BroadcastLen(u, v)
        us == AsList(u, k)
        vs == AsList(v, k)
    IN [i \in 1..k |-> <<vs[i], us[i]>>]

\* the edges add_edges(u, v) appends: u[i] -> v[i], in order
NewEdges(u, v) ==
    LET k == BroadcastLen(u, v)
        us == AsList(u, k)
        vs == AsList(v, k)
    IN [i \in 1..k |-> <<us[i], vs[i]>>]

----------------------------------------------------------------------------
(* The statements of 1_Basics.ipynb *)

edge_list ==
    << <<7, 0>>, <<7, 1>>, <<7, 2>>, <<7, 3>>, <<8, 0>>, <<8, 2>>, <<9, 2>>,
       <<10, 0>>, <<10, 4>>, <<10, 5>>, <<11, 0>>, <<12, 0>>, <<12, 3>>,
       <<13, 0>>, <<13, 1>>, <<13, 2>>, <<13, 3>>, <<16, 5>>, <<16, 6>>,
       <<17, 0>>, <<17, 1>>, <<19, 0>>, <<19, 1>>, <<21, 0>>, <<21, 1>>,
       <<25, 23>>, <<25, 24>>, <<27, 2>>, <<27, 23>>, <<27, 24>>, <<28, 2>>,
       <<29, 23>>, <<29, 26>>, <<30, 1>>, <<30, 8>>, <<31, 0>>, <<31, 24>>,
       <<31, 25>>, <<31, 28>>, <<32, 2>>, <<32, 8>>, <<32, 14>>, <<32, 15>>,
       <<32, 18>>, <<32, 20>>, <<32, 22>>, <<32, 23>>, <<32, 29>>, <<32, 30>>,
       <<32, 31>>, <<33, 8>>, <<33, 9>>, <<33, 13>>, <<33, 14>>, <<33, 15>>,
       <<33, 18>>, <<33, 19>>, <<33, 20>>, <<33, 22>>, <<33, 23>>, <<33, 26>>,
       <<33, 27>>, <<33, 28>>, <<33, 29>>, <<33, 30>>, <<33, 31>>, <<33, 32>> >>

\* the markdown cell "The Karate Club network contains 78 edges", [a b] as <<a, b>>
documented_edges ==
    << <<1, 0>>,
       <<2, 0>>, <<2, 1>>,
       <<3, 0>>, <<3, 1>>, <<3, 2>>,
       <<4, 0>>,
       <<5, 0>>,
       <<6, 0>>, <<6, 4>>, <<6, 5>>,
       <<7, 0>>, <<7, 1>>, <<7, 2>>, <<7, 3>>,
       <<8, 0>>, <<8, 2>>,
       <<9, 2>>,
       <<10, 0>>, <<10, 4>>, <<10, 5>>,
       <<11, 0>>,
       <<12, 0>>, <<12, 3>>,
       <<13, 0>>, <<13, 1>>, <<13, 2>>, <<13, 3>>,
       <<16, 5>>, <<16, 6>>,
       <<17, 0>>, <<17, 1>>,
       <<19, 0>>, <<19, 1>>,
       <<21, 0>>, <<21, 1>>,
       <<25, 23>>, <<25, 24>>,
       <<27, 2>>, <<27, 23>>, <<27, 24>>,
       <<28, 2>>,
       <<29, 23>>, <<29, 26>>,
       <<30, 1>>, <<30, 8>>,
       <<31, 0>>, <<31, 24>>, <<31, 25>>, <<31, 28>>,
       <<32, 2>>, <<32, 8>>, <<32, 14>>, <<32, 15>>, <<32, 18>>, <<32, 20>>,
       <<32, 22>>, <<32, 23>>, <<32, 29>>, <<32, 30>>, <<32, 31>>,
       <<33, 8>>, <<33, 9>>, <<33, 13>>, <<33, 14>>, <<33, 15>>, <<33, 18>>,
       <<33, 19>>, <<33, 20>>, <<33, 22>>, <<33, 23>>, <<33, 26>>, <<33, 27>>,
       <<33, 28>>, <<33, 29>>, <<33, 30>>, <<33, 31>>, <<33, 32>> >>

\* the tensor printed by the broness cell, 0.5000 and 1.0000 in fixed point
Half == Scale \div 2
One == Scale
broness_output ==
    << Half, Half, One, Half, One, One, Half, Half, Half,
       One, One, Half, One, One, One, Half, One, One,
       Half, One, One, Half, Half, One, Half, One, One,
       One, One, One, Half, One, Half, One, Half, One,
       One, One, One, One, One, One, One, One, One,
       One, Half, One, One, One, One, One, One, One,
       One, One, One, One, One, One, One, One, One,
       One, One, One, One, One, One, One, One, One,
       One, One, One, One, One, One >>

\* src, dst = [], []; for edge in edge_list: src.append(edge[0]); dst.append(edge[1])
ExerciseSrc == [i \in 1..Len(edge_list) |-> edge_list[i][1]]
ExerciseDst == [i \in 1..Len(edge_list) |-> edge_list[i][2]]

Program ==
    << [op |-> "add_nodes", n |-> 34],
       [op |-> "print_nodes"],
       [op |-> "add_edge", u |-> 1, v |-> 0],
       [op |-> "print_edges"],
       [op |-> "add_edges", u |-> List(<<2, 2>>), v |-> List(<<0, 1>>)],
       [op |-> "add_edges", u |-> List(<<3, 3, 3>>), v |-> List(<<0, 1, 2>>)],
       [op |-> "print_edges"],
       [op |-> "add_edges", u |-> List(<<4, 5>>), v |-> Single(0)],
       [op |-> "add_edges", u |-> Single(6), v |-> List(<<0, 4, 5>>)],
       [op |-> "print_edges"],
       [op |-> "add_edges", u |-> List(ExerciseSrc), v |-> List(ExerciseDst)],
       [op |-> "print_edges"],
       [op |-> "set_ndata", key |-> "feat", rows |-> 34, cols |-> 5],
       [op |-> "set_ndata", key |-> "wrong_feat", rows |-> 35, cols |-> 5],
       [op |-> "ndata_update", key |-> "another_feat", rows |-> 34, cols |-> 3],
       [op |-> "print_ndata"],
       [op |-> "ndata_pop", key |-> "another_feat"],
       [op |-> "set_node_rows", key |-> "feat", ids |-> <<0>>, val |-> Zeros(1, 5)],
       [op |-> "set_node_rows", key |-> "feat", ids |-> <<2, 3>>, val |-> Ones(2, 5)],
       [op |-> "set_node_rows", key |-> "feat", ids |-> <<10, 11, 12>>,
          val |-> MulScalar(Ones(3, 5), 2 * Scale)],
       [op |-> "print_ndata"],
       [op |-> "set_edata_ones", key |-> "broness"],
       [op |-> "scale_in_edges", key |-> "broness", v |-> 0, factor |-> Scale \div 2],
       [op |-> "print_edata"],
       [op |-> "edata_add_noise", key |-> "broness"],
       [op |-> "print_edata"] >>

Stmt == Program[pc]
Running == pc \in 1..Len(Program)
At(op) == Running /\ Stmt.op = op

----------------------------------------------------------------------------
(* The graph API *)

\* dict[key] = val
DictSet(d, key, val) ==
    [k \in DOMAIN d \cup {key} |-> IF k = key THEN val ELSE d[k]]
\* DictDel that removes nothing
DictDel_keep(d, key) == d

\* the dict without key
DictDel(d, key) == [k \in DOMAIN d \ {key} |-> d[k]]

\* SetRows that builds a fresh tensor: the rows it was not given become zero
SetRows_clobber(t, ids, val) ==
    [r \in DOMAIN t |->
        IF \E i \in DOMAIN ids : ids[i] + 1 = r
        THEN val[CHOOSE i \in DOMAIN ids : ids[i] + 1 = r]
        ELSE [j \in DOMAIN t[r] |-> 0]]

\* tensor t with the rows of the nodes ids[i] (numbered from 0) set to val[i]
SetRows(t, ids, val) ==
    [r \in DOMAIN t |->
        IF \E i \in DOMAIN ids : ids[i] + 1 = r
        THEN val[CHOOSE i \in DOMAIN ids : ids[i] + 1 = r]
        ELSE t[r]]

\* G.predecessors(v): the nodes with an edge into v
predecessors(es, v) == {es[i][1] : i \in {j \in DOMAIN es : es[j][2] = v}}

\* edge_ids that forgets the destination
edge_ids_anyDst(es, us, v) == {i \in DOMAIN es : es[i][1] \in us}

\* the ids (positions in es) of the edges us -> v
edge_ids(es, us, v) == {i \in DOMAIN es : es[i][1] \in us /\ es[i][2] = v}

\* no GCN.forward call is under way
GcnIdle ==
    /\ g_nodes = 0
    /\ g_edges = <<>>
    /\ g_ndata = NoKeys
    /\ g_msgs = NoKeys
    /\ inputs = <<>>
    /\ weight = <<>>
    /\ bias = <<>>
    /\ h = None
    /\ fpc = "idle"
    /\ ret = None

\* the graph cell and the training cell have not run
TrainIdle ==
    /\ tpc = "idle"
    /\ G_nodes = 0
    /\ G_edges = <<>>
    /\ GG_nodes = 0
    /\ GG_edges = <<>>
    /\ net_inputs = <<>>
    /\ params = None
    /\ optimizer = None
    /\ epoch = 0
    /\ all_logits = <<>>
    /\ logits = None
    /\ net_h = None
    /\ loss = None
    /\ grads = None
    /\ counts = [forward |-> 0, backward |-> 0, step |-> 0]
    /\ log = <<>>

Init ==
    /\ pc = 1
    /\ num_nodes = 0
    /\ edges = <<>>
    /\ ndata = NoKeys
    /\ edata = NoKeys
    /\ stdout = <<>>
    /\ out = None
    /\ raised = <<>>
    /\ GcnIdle
    /\ TrainIdle

\* G.add_nodes(n)
AddNodes ==
    /\ At("add_nodes")
    /\ num_nodes' = num_nodes + Stmt.n
    /\ pc' = pc + 1
    /\ UNCHANGED <<edges, ndata, edata, stdout, out, raised>>
    /\ UNCHANGED gcn_vars
    /\ UNCHANGED train_vars

\* G.add_edge(u, v)
AddEdge ==
    /\ At("add_edge")
    /\ edges' = Append(edges, <<Stmt.u, Stmt.v>>)
    /\ pc' = pc + 1
    /\ UNCHANGED <<num_nodes, ndata, edata, stdout, out, raised>>
    /\ UNCHANGED gcn_vars
    /\ UNCHANGED train_vars

\* add_edges that replaces the edge list
AddEdges_overwrite ==
    /\ At("add_edges")
    /\ edges' = NewEdges(Stmt.u, Stmt.v)
    /\ pc' = pc + 1
    /\ UNCHANGED <<num_nodes, ndata, edata, stdout, out, raised>>
    /\ UNCHANGED gcn_vars
    /\ UNCHANGED train_vars

\* G.add_edges(u, v)
AddEdges ==
    /\ At("add_edges")
    /\ edges' = edges \o NewEdges(Stmt.u, Stmt.v)
    /\ pc' = pc + 1
    /\ UNCHANGED <<num_nodes, ndata, edata, stdout, out, raised>>
    /\ UNCHANGED gcn_vars
    /\ UNCHANGED train_vars

\* print(G.number_of_nodes())
PrintNodes ==
    /\ At("print_nodes")
    /\ stdout' = Append(stdout, num_nodes)
    /\ pc' = pc + 1
    /\ UNCHANGED <<num_nodes, edges, ndata, edata, out, raised>>
    /\ UNCHANGED gcn_vars
    /\ UNCHANGED train_vars

\* print(G.number_of_edges())
PrintEdges ==
    /\ At("print_edges")
    /\ stdout' = Append(stdout, Len(edges))
    /\ pc' = pc + 1
    /\ UNCHANGED <<num_nodes, edges, ndata, edata, out, raised>>
    /\ UNCHANGED gcn_vars
    /\ UNCHANGED train_vars

\* set_ndata that stores the feature before it checks the row count
SetNData_storeFirst ==
    /\ At("set_ndata")
    /\ \E s \in 1..NumSamples :
        /\ ndata' = DictSet(ndata, Stmt.key, Randn(s, Stmt.rows, Stmt.cols))
        /\ raised' = IF Stmt.rows # num_nodes THEN Append(raised, "DGLError") ELSE raised
    /\ pc' = pc + 1
    /\ UNCHANGED <<num_nodes, edges, edata, stdout, out>>
    /\ UNCHANGED gcn_vars
    /\ UNCHANGED train_vars

\* G.ndata[key] = torch.randn((rows, cols)): DGLError unless rows = number of nodes
SetNData ==
    /\ At("set_ndata")
    /\ \E s \in 1..NumSamples :
        IF Stmt.rows # num_nodes
        THEN /\ raised' = Append(raised, "DGLError")
             /\ UNCHANGED ndata
        ELSE /\ ndata' = DictSet(ndata, Stmt.key, Randn(s, Stmt.rows, Stmt.cols))
             /\ UNCHANGED raised
    /\ pc' = pc + 1
    /\ UNCHANGED <<num_nodes, edges, edata, stdout, out>>
    /\ UNCHANGED gcn_vars
    /\ UNCHANGED train_vars

\* G.ndata.update({key: torch.randn((rows, cols))})
NDataUpdate ==
    /\ At("ndata_update")
    /\ \E s \in 1..NumSamples :
        ndata' = DictSet(ndata, Stmt.key, Randn(s, Stmt.rows, Stmt.cols))
    /\ pc' = pc + 1
    /\ UNCHANGED <<num_nodes, edges, edata, stdout, out, raised>>
    /\ UNCHANGED gcn_vars
    /\ UNCHANGED train_vars

\* G.ndata.pop(key), the value of the cell
NDataPop ==
    /\ At("ndata_pop")
    /\ Stmt.key \in DOMAIN ndata
    /\ out' = ndata[Stmt.key]
    /\ ndata' = DictDel(ndata, Stmt.key)
    /\ pc' = pc + 1
    /\ UNCHANGED <<num_nodes, edges, edata, stdout, raised>>
    /\ UNCHANGED gcn_vars
    /\ UNCHANGED train_vars

\* G.nodes[ids].data[key] = val
SetNodeRows ==
    /\ At("set_node_rows")
    /\ ndata' = DictSet(ndata, Stmt.key, SetRows(ndata[Stmt.key], Stmt.ids, Stmt.val))
    /\ pc' = pc + 1
    /\ UNCHANGED <<num_nodes, edges, edata, stdout, out, raised>>
    /\ UNCHANGED gcn_vars
    /\ UNCHANGED train_vars

\* print(G.ndata)
PrintNData ==
    /\ At("print_ndata")
    /\ stdout' = Append(stdout, ndata)
    /\ pc' = pc + 1
    /\ UNCHANGED <<num_nodes, edges, ndata, edata, out, raised>>
    /\ UNCHANGED gcn_vars
    /\ UNCHANGED train_vars

\* G.edata[key] = torch.ones((G.number_of_edges(),))
SetEDataOnes ==
    /\ At("set_edata_ones")
    /\ edata' = DictSet(edata, Stmt.key, Ones1(Len(edges)))
    /\ pc' = pc + 1
    /\ UNCHANGED <<num_nodes, edges, ndata, stdout, out, raised>>
    /\ UNCHANGED gcn_vars
    /\ UNCHANGED train_vars

\* G.edges[G.predecessors(v), v].data[key] *= factor
ScaleInEdges ==
    /\ At("scale_in_edges")
    /\ LET ids == edge_ids(edges, predecessors(edges, Stmt.v), Stmt.v)
           t == edata[Stmt.key]
       IN edata' = DictSet(edata, Stmt.key,
              [i \in DOMAIN t |->
                  IF i \in ids THEN (t[i] * Stmt.factor) \div Scale ELSE t[i]])
    /\ pc' = pc + 1
    /\ UNCHANGED <<num_nodes, edges, ndata, stdout, out, raised>>
    /\ UNCHANGED gcn_vars
    /\ UNCHANGED train_vars

\* print(G.edata) and print(G.edata['broness'])
PrintEData ==
    /\ At("print_edata")
    /\ stdout' = Append(stdout, edata)
    /\ pc' = pc + 1
    /\ UNCHANGED <<num_nodes, edges, ndata, edata, out, raised>>
    /\ UNCHANGED gcn_vars
    /\ UNCHANGED train_vars

\* G.edata.update({key: G.edata[key] + torch.randn((G.number_of_edges(),))})
EDataAddNoise ==
    /\ At("edata_add_noise")
    /\ \E s \in 1..NumSamples :
        edata' = DictSet(edata, Stmt.key, Add1(edata[Stmt.key], Randn1(s, Len(edges))))
    /\ pc' = pc + 1
    /\ UNCHANGED <<num_nodes, edges, ndata, stdout, out, raised>>
    /\ UNCHANGED gcn_vars
    /\ UNCHANGED train_vars

Next ==
    \/ AddNodes
    \/ AddEdge
    \/ AddEdges
    \/ PrintNodes
    \/ PrintEdges
    \/ SetNData
    \/ NDataUpdate
    \/ NDataPop
    \/ SetNodeRows
    \/ PrintNData
    \/ SetEDataOnes
    \/ ScaleInEdges
    \/ PrintEData
    \/ EDataAddNoise

vars == <<basics_vars, gcn_vars, train_vars>>

Spec == Init /\ [][Next]_vars

----------------------------------------------------------------------------
(* Properties of 1_Basics.ipynb *)

\* positions in Program (the statement at index i has run when pc > i)
Ran(i) == pc > i
EdgeSet(es) == {es[i] : i \in DOMAIN es}
ListsUpTo(S, n) == UNION {[1..k -> S] : k \in 1..n}

\* C1: after the complete construction sequence the graph has exactly 34
\* nodes and exactly 78 edges, which is what the cell prints.
C1_NodesAndEdges ==
    /\ Ran(11) => num_nodes = 34 /\ Len(edges) = 78
    /\ Ran(12) => stdout[1] = 34 /\ stdout[5] = 78
C1_Witness == pc = 13 /\ Len(stdout) = 5 /\ Len(edges) = 78

\* C2: after the construction the edge set is exactly the documented list,
\* [a b] read as a -> b, and no pair was added twice.
C2_EdgeSet ==
    Ran(11) =>
        /\ EdgeSet(edges) = EdgeSet(documented_edges)
        /\ Cardinality(EdgeSet(edges)) = Len(edges)
        /\ Cardinality(EdgeSet(documented_edges)) = 78
C2_Witness == pc = 12 /\ <<33, 32>> \in EdgeSet(edges) /\ <<1, 0>> \in EdgeSet(edges)

\* C3: every edge-adding step appends: add_edge adds one edge, add_edges with
\* k pairs adds k, the node count stays 34 and the earlier edges keep their
\* ids and endpoints; the four cells print 1, 6, 11 and 78.
PairCount(stmt) ==
    IF stmt.op = "add_edge" THEN 1
    ELSE IF stmt.u.kind = "list" THEN Len(stmt.u.val) ELSE Len(stmt.v.val)
C3_Step ==
    /\ (At("add_edge") \/ At("add_edges")) =>
        /\ Len(edges') = Len(edges) + PairCount(Stmt)
        /\ SubSeq(edges', 1, Len(edges)) = edges
        /\ num_nodes = 34 /\ num_nodes' = 34
    /\ pc' > 12 => <<stdout'[2], stdout'[3], stdout'[4], stdout'[5]>> = <<1, 6, 11, 78>>
C3_AppendOnly == [][C3_Step]_vars
C3_Witness == pc = 13 /\ Len(edges) = 78 /\ Len(stdout) = 5

\* C4: a single integer endpoint stands for that integer repeated: a list of
\* k sources with one destination d adds exactly s_i -> d, one source s with
\* a list of k destinations adds exactly s -> d_i; the notebook's two calls
\* add 4->0, 5->0 and 6->0, 6->4, 6->5.
C4_SingleEndpoint ==
    /\ Ran(8) => SubSeq(edges, 7, 8) = << <<4, 0>>, <<5, 0>> >>
    /\ Ran(9) => SubSeq(edges, 9, 11) = << <<6, 0>>, <<6, 4>>, <<6, 5>> >>
    /\ \A l \in ListsUpTo(0..MaxArgNode, MaxArgLen), x \in 0..MaxArgNode :
        /\ edges \o NewEdges(List(l), Single(x)) = edges \o [i \in 1..Len(l) |-> <<l[i], x>>]
        /\ NewEdges(List(l), Single(x)) = NewEdges(List(l), List(Repeat(x, Len(l))))
        /\ edges \o NewEdges(Single(x), List(l)) = edges \o [i \in 1..Len(l) |-> <<x, l[i]>>]
        /\ NewEdges(Single(x), List(l)) = NewEdges(List(Repeat(x, Len(l))), List(l))
C4_Witness == pc = 10 /\ Len(edges) = 11 /\ edges[11] = <<6, 5>>

\* C5: assigning a node feature with 35 rows to the 34-node graph raises a
\* DGLError and changes nothing: no key 'wrong_feat', 'feat' as before,
\* node and edge counts as before.
C5_Step ==
    /\ (At("set_ndata") /\ Stmt.rows # num_nodes) =>
        /\ raised' = Append(raised, "DGLError")
        /\ Stmt.key \notin DOMAIN ndata'
        /\ ndata' = ndata
        /\ num_nodes' = num_nodes /\ edges' = edges /\ edata' = edata
    /\ pc' > 14 =>
        /\ Len(raised') = 1
        /\ "wrong_feat" \notin DOMAIN ndata'
        /\ "feat" \in DOMAIN ndata'
C5_MismatchRaises == [][C5_Step]_vars
C5_Witness ==
    /\ pc = 15 /\ raised = <<"DGLError">> /\ num_nodes = 34
    /\ Program[14].rows = 35 /\ DOMAIN ndata = {"feat"}

\* C6: G.nodes[ids].data['feat'] = value changes exactly the rows of ids.
\* After the three assignments row 0 is zeros, rows 2, 3 are ones, rows
\* 10, 11, 12 are twos and the other 28 rows are as they were printed before.
RowOf(c) == [j \in 1..5 |-> c]
Changed(upto) ==
    UNION {{Program[i].ids[k] : k \in DOMAIN Program[i].ids} : i \in 18..upto}
C6_PartialUpdate ==
    (Ran(18) /\ pc <= 22) =>
        LET n == IF pc > 20 THEN 20 ELSE pc - 1
            f == ndata["feat"]
            before == stdout[6]["feat"]
        IN /\ f[0 + 1] = RowOf(0)
           /\ n >= 19 => f[2 + 1] = RowOf(One) /\ f[3 + 1] = RowOf(One)
           /\ n >= 20 => \A v \in {10, 11, 12} : f[v + 1] = RowOf(2 * One)
           /\ \A v \in (0..33) \ Changed(n) : f[v + 1] = before[v + 1]
           /\ n = 20 => Cardinality((0..33) \ Changed(n)) = 28
           /\ DOMAIN f = 1..34
C6_Witness ==
    /\ pc = 21
    /\ ndata["feat"][13] = RowOf(2 * One)
    /\ ndata["feat"][14] # RowOf(2 * One)
    /\ stdout[6]["feat"][1] # RowOf(0)

\* C7: update adds 'another_feat' and leaves 'feat'; pop returns the stored
\* value and removes the key; after update then pop the keys are {'feat'}
\* and 'feat' has the value it had before the update.
C7_Step ==
    /\ At("ndata_update") =>
        /\ DOMAIN ndata' = DOMAIN ndata \cup {Stmt.key}
        /\ \A k \in DOMAIN ndata : ndata'[k] = ndata[k]
    /\ At("ndata_pop") =>
        /\ out' = ndata[Stmt.key]
        /\ DOMAIN ndata' = DOMAIN ndata \ {Stmt.key}
        /\ \A k \in DOMAIN ndata' : ndata'[k] = ndata[k]
    /\ pc' = 18 =>
        /\ DOMAIN ndata' = {"feat"}
        /\ ndata'["feat"] = stdout'[6]["feat"]
        /\ out' = stdout'[6]["another_feat"]
C7_DictLike == [][C7_Step]_vars
C7_Witness ==
    /\ pc = 18 /\ DOMAIN ndata = {"feat"}
    /\ DOMAIN stdout[6] = {"feat", "another_feat"} /\ out = stdout[6]["another_feat"]

\* C8: after broness is set to one per edge and the edges into node 0 are
\* multiplied by 0.5, an edge's broness is 0.5 iff its destination is node 0
\* (16 edges) and 1.0 otherwise; the halved positions are those of the
\* printed tensor.
C8_Broness ==
    (Ran(23) /\ pc <= 25) =>
        LET b == edata["broness"] IN
        /\ DOMAIN b = 1..78
        /\ \A i \in 1..78 : (b[i] = Half) <=> (edges[i][2] = 0)
        /\ \A i \in 1..78 : (b[i] = One) <=> (edges[i][2] # 0)
        /\ Cardinality({i \in 1..78 : b[i] = Half}) = 16
        /\ b = broness_output
        /\ Ran(24) => stdout[8]["broness"] = broness_output
C8_Witness == pc = 25 /\ edata["broness"][1] = Half /\ edata["broness"][3] = One

----------------------------------------------------------------------------
(* The GCN notebook: GCN.forward(g, inputs)                                *)
(*                                                                         *)
(* A call runs linear, sets g.ndata['h'], triggers send with gcn_message   *)
(* on all edges and recv with gcn_reduce on all nodes, pops 'h' and        *)
(* returns it.  Node v's row of a tensor is at index v + 1.                *)

\* torch.eye(n)
Eye(n) == [i \in 1..n |-> [j \in 1..n |-> IF i = j THEN 1 ELSE 0]]

\* nn.Linear(in_feats, out_feats): the s-th sample of its random parameters
InitWeight(s, out_feats, in_feats) ==
    [o \in 1..out_feats |-> [i \in 1..in_feats |-> ((s * o + i) % 3) - 1]]
InitBias(s, out_feats) == [o \in 1..out_feats |-> (s + o) % 2]

RECURSIVE Dot(_, _, _)
Dot(x, w, k) == IF k = 0 THEN 0 ELSE x[k] * w[k] + Dot(x, w, k - 1)

\* nn.Linear: x W^T + b, row by row
Linear(w, b, x) ==
    [v \in DOMAIN x |-> [o \in DOMAIN w |-> Dot(x[v], w[o], Len(x[v])) + b[o]]]

\* def gcn_message(edges): pass
gcn_message(src, dst) == None

\* def gcn_reduce(nodes): pass
gcn_reduce(mailbox) == None

\* GG.in_degrees(GG.nodes()): the number of edges into each node
in_degrees(es, n) ==
    [v \in 1..n |-> Cardinality({i \in DOMAIN es : es[i][2] = v - 1})]

\* the graphs forward is run on: every edge list over n nodes that is not
\* empty and repeats no pair, in row-major order
AllPairs(n) == [k \in 1..(n * n) |-> <<(k - 1) \div n, (k - 1) % n>>]
Select(sq, mask) ==
    LET Keep(e) == mask[e] IN SelectSeq(sq, Keep)

InitGCN ==
    /\ pc = 1
    /\ num_nodes = 0
    /\ edges = <<>>
    /\ ndata = NoKeys
    /\ edata = NoKeys
    /\ stdout = <<>>
    /\ out = None
    /\ raised = <<>>
    /\ g_nodes \in 1..MaxGcnNodes
    /\ \E mask \in [{AllPairs(g_nodes)[k] : k \in 1..(g_nodes * g_nodes)} -> BOOLEAN] :
        /\ g_edges = Select(AllPairs(g_nodes), mask)
        /\ g_edges # <<>>
    /\ g_ndata = NoKeys
    /\ g_msgs = NoKeys
    /\ inputs = Eye(g_nodes)
    /\ \E o \in 1..MaxOutFeats, s \in 1..NumSamples :
        /\ weight = InitWeight(s, o, g_nodes)
        /\ bias = InitBias(s, o)
    /\ h = None
    /\ fpc = "linear"
    /\ ret = None
    /\ TrainIdle

\* h = self.linear(inputs)
GcnLinear ==
    /\ fpc = "linear"
    /\ h' = Linear(weight, bias, inputs)
    /\ fpc' = "set_h"
    /\ UNCHANGED <<g_nodes, g_edges, g_ndata, g_msgs, inputs, weight, bias, ret>>
    /\ UNCHANGED basics_vars
    /\ UNCHANGED train_vars

\* g.ndata['h'] = h
GcnSetH ==
    /\ fpc = "set_h"
    /\ g_ndata' = DictSet(g_ndata, "h", h)
    /\ fpc' = "send"
    /\ UNCHANGED <<g_nodes, g_edges, g_msgs, inputs, weight, bias, h, ret>>
    /\ UNCHANGED basics_vars
    /\ log' = Append(log, "set_h")
    /\ UNCHANGED loop_vars

\* g.send(g.edges(), gcn_message): the message function gets the features of
\* the edges' endpoints and returns the message fields.  The library is given
\* None by a function that returns nothing; it raises or stores no field.
GcnSend ==
    /\ fpc = "send"
    /\ LET src == [e \in DOMAIN g_edges |-> g_ndata["h"][g_edges[e][1] + 1]]
           dst == [e \in DOMAIN g_edges |-> g_ndata["h"][g_edges[e][2] + 1]]
           m == gcn_message(src, dst)
       IN IF m = None
          THEN \E outcome \in {"raise", "ignore"} :
                /\ fpc' = IF outcome = "raise" THEN "raised" ELSE "recv"
                /\ UNCHANGED g_msgs
          ELSE /\ g_msgs' = m
               /\ fpc' = "recv"
    /\ UNCHANGED <<g_nodes, g_edges, g_ndata, inputs, weight, bias, h, ret>>
    /\ UNCHANGED basics_vars
    /\ log' = Append(log, "send")
    /\ UNCHANGED loop_vars

\* g.recv(g.nodes(), gcn_reduce): the reduce function gets each node's
\* mailbox, the messages of its incoming edges, and returns the node's new
\* feature fields; the messages are consumed.
GcnRecv ==
    /\ fpc = "recv"
    /\ LET mailbox ==
               [v \in 1..g_nodes |->
                   [f \in DOMAIN g_msgs |->
                       LET In(e) == g_edges[e][2] = v - 1
                       IN [k \in 1..Len(SelectSeq([e \in DOMAIN g_edges |-> e], In)) |->
                              g_msgs[f][SelectSeq([e \in DOMAIN g_edges |-> e], In)[k]]]]]
           r == gcn_reduce(mailbox)
       IN IF r = None
          THEN \E outcome \in {"raise", "ignore"} :
                /\ fpc' = IF outcome = "raise" THEN "raised" ELSE "pop"
                /\ UNCHANGED <<g_ndata, g_msgs>>
          ELSE /\ g_ndata' = [k \in DOMAIN g_ndata \cup DOMAIN r |->
                                 IF k \in DOMAIN r THEN r[k] ELSE g_ndata[k]]
               /\ g_msgs' = NoKeys
               /\ fpc' = "pop"
    /\ UNCHANGED <<g_nodes, g_edges, inputs, weight, bias, h, ret>>
    /\ UNCHANGED basics_vars
    /\ log' = Append(log, "recv")
    /\ UNCHANGED loop_vars

\* h = g.ndata.pop('h')
GcnPop ==
    /\ fpc = "pop"
    /\ h' = g_ndata["h"]
    /\ g_ndata' = DictDel(g_ndata, "h")
    /\ fpc' = "return"
    /\ UNCHANGED <<g_nodes, g_edges, g_msgs, inputs, weight, bias, ret>>
    /\ UNCHANGED basics_vars
    /\ UNCHANGED train_vars

\* return h
GcnReturn ==
    /\ fpc = "return"
    /\ ret' = h
    /\ fpc' = "returned"
    /\ UNCHANGED <<g_nodes, g_edges, g_ndata, g_msgs, inputs, weight, bias, h>>
    /\ UNCHANGED basics_vars
    /\ UNCHANGED train_vars

NextGCN ==
    \/ GcnLinear
    \/ GcnSetH
    \/ GcnSend
    \/ GcnRecv
    \/ GcnPop
    \/ GcnReturn

SpecGCN == InitGCN /\ [][NextGCN]_vars

----------------------------------------------------------------------------
(* The GCN notebook: the graph cell and the training cell                  *)
(*                                                                         *)
(* G and GG come from tutorial_utils.  net(GG, inputs) is Net.forward: it  *)
(* calls gcn1, applies relu and calls gcn2, each call being the forward    *)
(* modelled above, run on GG with the layer's parameters.  The numbers an  *)
(* optimizer step writes into the parameters are the tensor library's; a   *)
(* parameter is kept as the sample it started from and the number of       *)
(* updates applied to it, and its value after k updates is the sample k    *)
(* places further on.                                                      *)

\* Net(34, 5, 2)
InFeats == 34
HiddenSize == 5
NumClasses == 2
\* for epoch in range(30)
NumEpochs == 30

labeled_nodes == <<0, 33>>
labels == <<0, 1>>

\* tutorial_utils.create_karate_graph(): the karate club graph
create_karate_graph == [nodes |-> 34, edges |-> documented_edges]

Reversed(es) == [i \in DOMAIN es |-> <<es[i][2], es[i][1]>>]
SelfLoops(n) == [v \in 1..n |-> <<v - 1, v - 1>>]

\* tutorial_utils.convert_to_bidirectional(g): g with every edge in both
\* directions and a self loop on every node
convert_to_bidirectional(g) ==
    [nodes |-> g.nodes, edges |-> g.edges \o Reversed(g.edges) \o SelfLoops(g.nodes)]

\* net = Net(in_feats, hidden_size, num_classes): gcn1 and gcn2, sample s
NewNet(s) == [init |-> s, updates |-> 0]
LayerWeight(p, layer) ==
    IF layer = 1 THEN InitWeight(p.init + p.updates, HiddenSize, InFeats)
    ELSE InitWeight(p.init + p.updates + 1, NumClasses, HiddenSize)
LayerBias(p, layer) ==
    IF layer = 1 THEN InitBias(p.init + p.updates, HiddenSize)
    ELSE InitBias(p.init + p.updates + 1, NumClasses)

\* torch.optim.SGD in place of torch.optim.Adam
optimizer_sgd == [kind |-> "SGD", lr |-> <<1, 100>>, step |-> 0]

\* optimizer = torch.optim.Adam(net.parameters(), lr=0.01), lr as a fraction
NewOptimizer == [kind |-> "Adam", lr |-> <<1, 100>>, step |-> 0]

\* optimizer.step(): parameters without a gradient are skipped; Adam counts
\* its steps in its state, plain SGD keeps no state
StepParams(p, g) == IF g = None THEN p ELSE [p EXCEPT !.updates = @ + 1]
StepOptimizer(opt) ==
    IF opt.kind = "Adam" THEN [opt EXCEPT !.step = @ + 1] ELSE opt

\* torch.relu
relu(x) == [v \in DOMAIN x |-> [o \in DOMAIN x[v] |-> IF x[v][o] > 0 THEN x[v][o] ELSE 0]]

\* F.nll_loss(F.log_softmax(logits, 1)[nodes], targets): the loss as the
\* rows of logits it is computed from and their targets
NllLoss(lg, nodes, targets) ==
    [fn |-> "nll_loss",
     rows |-> nodes,
     input |-> [k \in DOMAIN nodes |-> lg[nodes[k] + 1]],
     target |-> targets]

InitTrain ==
    /\ pc = 1
    /\ num_nodes = 0
    /\ edges = <<>>
    /\ ndata = NoKeys
    /\ edata = NoKeys
    /\ stdout = <<>>
    /\ out = None
    /\ raised = <<>>
    /\ GcnIdle
    /\ tpc = "load"
    /\ G_nodes = 0
    /\ G_edges = <<>>
    /\ GG_nodes = 0
    /\ GG_edges = <<>>
    /\ net_inputs = <<>>
    /\ params = None
    /\ optimizer = None
    /\ epoch = 0
    /\ all_logits = <<>>
    /\ logits = None
    /\ net_h = None
    /\ loss = None
    /\ grads = None
    /\ counts = [forward |-> 0, backward |-> 0, step |-> 0]
    /\ log = <<>>

\* G = create_karate_graph(); GG = convert_to_bidirectional(G), without the conversion
LoadGraph_noConvert ==
    /\ tpc = "load"
    /\ G_nodes' = create_karate_graph.nodes
    /\ G_edges' = create_karate_graph.edges
    /\ GG_nodes' = create_karate_graph.nodes
    /\ GG_edges' = create_karate_graph.edges
    /\ tpc' = "setup"
    /\ UNCHANGED <<net_inputs, params, optimizer, epoch, all_logits, logits, net_h,
                   loss, grads, counts, log>>
    /\ UNCHANGED <<basics_vars, gcn_vars>>

\* G = create_karate_graph(); GG = convert_to_bidirectional(G)
LoadGraph ==
    /\ tpc = "load"
    /\ G_nodes' = create_karate_graph.nodes
    /\ G_edges' = create_karate_graph.edges
    /\ GG_nodes' = convert_to_bidirectional(create_karate_graph).nodes
    /\ GG_edges' = convert_to_bidirectional(create_karate_graph).edges
    /\ tpc' = "setup"
    /\ UNCHANGED <<net_inputs, params, optimizer, epoch, all_logits, logits, net_h,
                   loss, grads, counts, log>>
    /\ UNCHANGED <<basics_vars, gcn_vars>>

\* inputs = torch.eye(34); net = Net(34, 5, 2); optimizer = ...; all_logits = []
Setup ==
    /\ tpc = "setup"
    /\ net_inputs' = Eye(InFeats)
    /\ \E s \in 1..NumSamples : params' = NewNet(s)
    /\ optimizer' = NewOptimizer
    /\ all_logits' = <<>>
    /\ tpc' = "for"
    /\ UNCHANGED <<G_nodes, G_edges, GG_nodes, GG_edges, epoch, logits, net_h,
                   loss, grads, counts, log>>
    /\ UNCHANGED <<basics_vars, gcn_vars>>

\* for epoch in range(30): epoch is the next value of the loop variable
ForEpoch ==
    /\ tpc = "for"
    /\ tpc' = IF epoch < NumEpochs THEN "net" ELSE "done"
    /\ UNCHANGED <<G_nodes, G_edges, GG_nodes, GG_edges, net_inputs, params, optimizer,
                   epoch, all_logits, logits, net_h, loss, grads, counts, log>>
    /\ UNCHANGED <<basics_vars, gcn_vars>>

\* GCN.forward is entered on graph GG with the parameters of a layer
CallGcn(layer, x) ==
    /\ g_nodes' = GG_nodes
    /\ g_edges' = GG_edges
    /\ inputs' = x
    /\ weight' = LayerWeight(params, layer)
    /\ bias' = LayerBias(params, layer)
    /\ h' = None
    /\ ret' = None
    /\ fpc' = "linear"
    /\ UNCHANGED <<g_ndata, g_msgs>>

\* logits = net(GG, inputs); Net.forward: h = self.gcn1(g, inputs)
NetGcn1 ==
    /\ tpc = "net"
    /\ CallGcn(1, net_inputs)
    /\ counts' = [counts EXCEPT !.forward = @ + 1]
    /\ log' = <<>>
    /\ tpc' = "gcn1"
    /\ UNCHANGED <<G_nodes, G_edges, GG_nodes, GG_edges, net_inputs, params, optimizer,
                   epoch, all_logits, logits, net_h, loss, grads>>
    /\ UNCHANGED basics_vars

\* Net.forward: h = torch.relu(h)
NetRelu ==
    /\ tpc = "gcn1"
    /\ fpc = "returned"
    /\ net_h' = relu(ret)
    /\ log' = Append(log, "relu")
    /\ tpc' = "relu"
    /\ UNCHANGED <<G_nodes, G_edges, GG_nodes, GG_edges, net_inputs, params, optimizer,
                   epoch, all_logits, logits, loss, grads, counts>>
    /\ UNCHANGED <<basics_vars, gcn_vars>>

\* Net.forward: h = self.gcn2(g, h)
NetGcn2 ==
    /\ tpc = "relu"
    /\ CallGcn(2, net_h)
    /\ tpc' = "gcn2"
    /\ UNCHANGED <<G_nodes, G_edges, GG_nodes, GG_edges, net_inputs, params, optimizer,
                   epoch, all_logits, logits, net_h, loss, grads, counts, log>>
    /\ UNCHANGED basics_vars

\* Net.forward: return h
NetReturn ==
    /\ tpc = "gcn2"
    /\ fpc = "returned"
    /\ logits' = ret
    /\ tpc' = "append"
    /\ UNCHANGED <<G_nodes, G_edges, GG_nodes, GG_edges, net_inputs, params, optimizer,
                   epoch, all_logits, net_h, loss, grads, counts, log>>
    /\ UNCHANGED <<basics_vars, gcn_vars>>

\* an error raised inside forward leaves Net.forward and the loop
NetRaise ==
    /\ tpc \in {"gcn1", "gcn2"}
    /\ fpc = "raised"
    /\ tpc' = "aborted"
    /\ UNCHANGED <<G_nodes, G_edges, GG_nodes, GG_edges, net_inputs, params, optimizer,
                   epoch, all_logits, logits, net_h, loss, grads, counts, log>>
    /\ UNCHANGED <<basics_vars, gcn_vars>>

\* all_logits.append(logits.detach())
AppendLogits ==
    /\ tpc = "append"
    /\ all_logits' = Append(all_logits, logits)
    /\ tpc' = "loss"
    /\ UNCHANGED <<G_nodes, G_edges, GG_nodes, GG_edges, net_inputs, params, optimizer,
                   epoch, logits, net_h, loss, grads, counts, log>>
    /\ UNCHANGED <<basics_vars, gcn_vars>>

\* logp = F.log_softmax(logits, 1); loss = F.nll_loss(logp[labeled_nodes], labels)
ComputeLoss ==
    /\ tpc = "loss"
    /\ loss' = NllLoss(logits, labeled_nodes, labels)
    /\ tpc' = "zero_grad"
    /\ UNCHANGED <<G_nodes, G_edges, GG_nodes, GG_edges, net_inputs, params, optimizer,
                   epoch, all_logits, logits, net_h, grads, counts, log>>
    /\ UNCHANGED <<basics_vars, gcn_vars>>

\* optimizer.zero_grad()
ZeroGrad ==
    /\ tpc = "zero_grad"
    /\ grads' = None
    /\ tpc' = "backward"
    /\ UNCHANGED <<G_nodes, G_edges, GG_nodes, GG_edges, net_inputs, params, optimizer,
                   epoch, all_logits, logits, net_h, loss, counts, log>>
    /\ UNCHANGED <<basics_vars, gcn_vars>>

\* loss.backward(): the gradients are those of loss
Backward ==
    /\ tpc = "backward"
    /\ grads' = [of |-> loss]
    /\ counts' = [counts EXCEPT !.backward = @ + 1]
    /\ tpc' = "step"
    /\ UNCHANGED <<G_nodes, G_edges, GG_nodes, GG_edges, net_inputs, params, optimizer,
                   epoch, all_logits, logits, net_h, loss, log>>
    /\ UNCHANGED <<basics_vars, gcn_vars>>

\* optimizer.step()
OptimizerStep ==
    /\ tpc = "step"
    /\ params' = StepParams(params, grads)
    /\ optimizer' = StepOptimizer(optimizer)
    /\ counts' = [counts EXCEPT !.step = @ + 1]
    /\ tpc' = "print"
    /\ UNCHANGED <<G_nodes, G_edges, GG_nodes, GG_edges, net_inputs,
                   epoch, all_logits, logits, net_h, loss, grads, log>>
    /\ UNCHANGED <<basics_vars, gcn_vars>>

\* print('Epoch %d | Loss: %.4f' % ...), the end of the loop body
EndEpoch ==
    /\ tpc = "print"
    /\ epoch' = epoch + 1
    /\ tpc' = "for"
    /\ UNCHANGED <<G_nodes, G_edges, GG_nodes, GG_edges, net_inputs, params, optimizer,
                   all_logits, logits, net_h, loss, grads, counts, log>>
    /\ UNCHANGED <<basics_vars, gcn_vars>>

NextTrain ==
    \/ LoadGraph
    \/ Setup
    \/ ForEpoch
    \/ NetGcn1
    \/ GcnLinear
    \/ GcnSetH
    \/ GcnSend
    \/ GcnRecv
    \/ GcnPop
    \/ GcnReturn
    \/ NetRelu
    \/ NetGcn2
    \/ NetReturn
    \/ NetRaise
    \/ AppendLogits
    \/ ComputeLoss
    \/ ZeroGrad
    \/ Backward
    \/ OptimizerStep
    \/ EndEpoch

SpecTrain == InitTrain /\ [][NextTrain]_vars

----------------------------------------------------------------------------
(* Properties of the GCN notebook *)

RECURSIVE AddRows(_, _, _)
\* the sum of the rows hh[u + 1] over the first k edges u -> v of es
AddRows(es, hh, k) ==
    [v \in DOMAIN hh |->
        IF k = 0 THEN [o \in DOMAIN hh[v] |-> 0]
        ELSE [o \in DOMAIN hh[v] |->
                 AddRows(es, hh, k - 1)[v][o]
                 + (IF es[k][2] = v - 1 THEN hh[es[k][1] + 1][o] ELSE 0)]]
NeighbourSum(es, hh) == AddRows(es, hh, Len(es))

ForwardEnded == fpc \in {"returned", "raised"}

\* C9: the GCN layer is a linear transform followed by a neighbour sum: the
\* value forward returns for node v is the sum over the edges u -> v of
\* linear(inputs)[u].
C9_NeighbourSum ==
    ForwardEnded =>
        /\ fpc = "returned"
        /\ ret = NeighbourSum(g_edges, Linear(weight, bias, inputs))

----------------------------------------------------------------------------
(* Properties of the training cell *)

ParamsUpdated == params # None /\ params' # params
LossOfLabeledNodes ==
    /\ grads = [of |-> loss]
    /\ loss.fn = "nll_loss"
    /\ loss.rows = <<0, 33>>
    /\ loss.target = <<0, 1>>
    /\ loss.input = <<logits[1], logits[34]>>

\* C11 as stated: in every epoch the parameters of the two-layer network are
\* updated by a stochastic-gradient-descent step on the loss of the labeled
\* nodes 0 and 33 with labels 0 and 1.
C11_SGDStep_Action ==
    /\ ParamsUpdated => optimizer.kind = "SGD" /\ LossOfLabeledNodes
    /\ epoch' = epoch + 1 => counts.step = epoch'
C11_AdamStep_Action ==
    /\ ParamsUpdated =>
        /\ optimizer.kind = "Adam"
        /\ optimizer.lr = <<1, 100>>
        /\ optimizer'.step = optimizer.step + 1
        /\ params'.updates = params.updates + 1
        /\ params'.init = params.init
        /\ LossOfLabeledNodes
    /\ epoch' = epoch + 1 =>
        /\ counts.step = epoch'
        /\ params.updates = epoch'
        /\ optimizer.step = epoch'
MailboxSize(v) ==
    IF DOMAIN g_msgs = {} THEN 0
    ELSE LET f == CHOOSE k \in DOMAIN g_msgs : TRUE
         IN Cardinality({e \in DOMAIN g_msgs[f] : g_edges[e][2] = v - 1})
NetForwardLog == <<"set_h", "send", "recv", "relu", "set_h", "send", "recv">>

\* C14: in every GCN.forward call 'h' is set first, then send runs on all
\* edges and only then recv runs on all nodes, so that at recv the mailbox
\* of every node holds exactly one message per incoming edge; one
\* Net.forward call makes exactly two such rounds on the same graph, gcn1
\* then gcn2, with relu between them only.
C14_SendThenRecv ==
    /\ fpc # "raised"
    /\ Len(log) <= Len(NetForwardLog) /\ log = SubSeq(NetForwardLog, 1, Len(log))
    /\ tpc = "append" => log = NetForwardLog
    /\ fpc = "recv" =>
        \A v \in 1..g_nodes : MailboxSize(v) = in_degrees(g_edges, g_nodes)[v]

====
